---- MODULE Spec2Model ----
(***************************************************************************)
(* Surface-distance engine of Code/Surface_distance.py.                    *)
(*                                                                         *)
(* Numbers.  The program computes in float64.  The model computes in      *)
(* fixed point: the real x is the integer floor(x * Unit), so 1.0 is Unit. *)
(* +infinity and NaN are the two reserved values Inf and NaN, handled by   *)
(* the arithmetic below the way IEEE-754 handles them.  Squared lengths    *)
(* are kept as exact integers until the square root is taken.              *)
(*                                                                         *)
(* Volumes.  A boolean array is its shape (a triple of axis lengths) and   *)
(* the set of its true voxels (0-based index triples <<x0, x1, x2>>).      *)
(***************************************************************************)
EXTENDS Integers, Sequences, FiniteSets

VARIABLES mask_gt, shape_gt, mask_pred, shape_pred, spacing_mm,
          pc, surface_distances, metric,
          overlap, processed, vd_list, sd_list, h100_list, h95_list, gt, pred,
          h100, h95, surface_dice, volumetric_dice

\* the state of the loop over the cases: the flag, the number of cases
\* processed, the four score lists, the two voxel accumulators and the four
\* scores of the last case
loop_vars == <<overlap, processed, vd_list, sd_list, h100_list, h95_list, gt, pred,
               h100, h95, surface_dice, volumetric_dice>>

vars == <<mask_gt, shape_gt, mask_pred, shape_pred, spacing_mm,
          pc, surface_distances, metric,
          overlap, processed, vd_list, sd_list, h100_list, h95_list, gt, pred,
          h100, h95, surface_dice, volumetric_dice>>

----------------------------------------------------------------------------
(* Bounds of the model *)

\* fixed-point resolution: units per millimetre (and per unit fraction)
Unit == 1000

\* largest number of true voxels in two different input masks together
MaxTrue == 3

\* largest number of empty voxel layers between two boxes
MaxGap == 2

\* largest number of (ground truth, prediction) file pairs of one run
MaxCases == 2

----------------------------------------------------------------------------
(* float64 values: finite fixed-point integers, Inf, NaN *)

\* np.Inf
Inf == 2000000000

\* np.NaN
NaN == -2000000000

IsNaN(x) == x = NaN

IsInf(x) == x = Inf

IsFinite(x) == x # NaN /\ x # Inf

\* x <= y on floats: false when either side is NaN
FLe(x, y) == ~IsNaN(x) /\ ~IsNaN(y) /\ x <= y

\* x < y on floats
FLt(x, y) == ~IsNaN(x) /\ ~IsNaN(y) /\ x < y

\* x + y on non-negative floats
FAdd(x, y) ==
    IF IsNaN(x) \/ IsNaN(y) THEN NaN
    ELSE IF IsInf(x) \/ IsInf(y) THEN Inf
    ELSE x + y

\* x * y on non-negative floats (inf * 0 is NaN)
FMul(x, y) ==
    IF IsNaN(x) \/ IsNaN(y) THEN NaN
    ELSE IF IsInf(x) \/ IsInf(y)
         THEN (IF x = 0 \/ y = 0 THEN NaN ELSE Inf)
    ELSE (x * y) \div Unit

\* x / y on non-negative floats (0/0 is NaN, x/0 is inf for x > 0)
FDiv(x, y) ==
    IF IsNaN(x) \/ IsNaN(y) THEN NaN
    ELSE IF IsInf(x) THEN (IF IsInf(y) THEN NaN ELSE Inf)
    ELSE IF IsInf(y) THEN 0
    ELSE IF y = 0 THEN (IF x = 0 THEN NaN ELSE Inf)
    ELSE (x * Unit) \div y

\* np.sum of a float array: 0 for the empty array
RECURSIVE FSum(_)
FSum(s) == IF s = <<>> THEN 0 ELSE FAdd(Head(s), FSum(Tail(s)))

\* np.cumsum: the running sums
RECURSIVE CumSumFrom(_, _)
CumSumFrom(s, acc) ==
    IF s = <<>> THEN <<>>
    ELSE <<FAdd(acc, Head(s))>> \o CumSumFrom(Tail(s), FAdd(acc, Head(s)))

cumsum(s) == CumSumFrom(s, 0)

\* floor of the square root of n >= 0, by bisection on [lo, hi)
RECURSIVE SqrtBetween(_, _, _)
SqrtBetween(n, lo, hi) ==
    IF hi - lo <= 1 THEN lo
    ELSE LET mid == (lo + hi) \div 2
         IN  IF mid * mid <= n THEN SqrtBetween(n, mid, hi)
             ELSE SqrtBetween(n, lo, mid)

ISqrt(n) == SqrtBetween(n, 0, 46341)

\* sqrt of the exact integer n (a squared length in mm^2), in fixed point
FSqrt(n) == ISqrt(n * Unit * Unit)

----------------------------------------------------------------------------
(* The lookup table of surfel normals, in eighths: entry code + 1 holds    *)
(* 8 * neighbour_code_to_normals[code].                                    *)

neighbour_code_to_normals == <<
    << <<0, 0, 0>> >>,
    << <<1, 1, 1>> >>,
    << <<-1, -1, 1>> >>,
    << <<-2, -2, 0>>, <<2, 2, 0>> >>,
    << <<1, -1, 1>> >>,
    << <<-2, 0, -2>>, <<2, 0, 2>> >>,
    << <<1, -1, 1>>, <<-1, -1, 1>> >>,
    << <<4, 0, 0>>, <<2, 2, 2>>, <<1, 1, 1>> >>,
    << <<-1, 1, 1>> >>,
    << <<1, 1, 1>>, <<-1, 1, 1>> >>,
    << <<-2, 0, 2>>, <<-2, 0, 2>> >>,
    << <<4, 0, 0>>, <<-2, -2, 2>>, <<-1, -1, 1>> >>,
    << <<2, -2, 0>>, <<2, -2, 0>> >>,
    << <<4, 0, 0>>, <<2, -2, 2>>, <<-1, 1, -1>> >>,
    << <<-4, 0, 0>>, <<-2, 2, 2>>, <<-1, 1, 1>> >>,
    << <<4, 0, 0>>, <<4, 0, 0>> >>,
    << <<1, -1, -1>> >>,
    << <<0, -2, -2>>, <<0, 2, 2>> >>,
    << <<-1, -1, 1>>, <<1, -1, -1>> >>,
    << <<0, -4, 0>>, <<2, 2, 2>>, <<1, 1, 1>> >>,
    << <<1, -1, 1>>, <<1, -1, -1>> >>,
    << <<0, 0, -4>>, <<2, 2, 2>>, <<-1, -1, -1>> >>,
    << <<-1, -1, 1>>, <<1, -1, 1>>, <<1, -1, -1>> >>,
    << <<-1, -1, -1>>, <<-2, -2, -2>>, <<2, 2, 2>>, <<1, 1, 1>> >>,
    << <<-1, 1, 1>>, <<1, -1, -1>> >>,
    << <<0, -2, -2>>, <<0, 2, 2>>, <<-1, 1, 1>> >>,
    << <<-2, 0, 2>>, <<-2, 0, 2>>, <<1, -1, -1>> >>,
    << <<1, 1, 1>>, <<3, 3, 3>>, <<0, -2, 2>>, <<-2, 0, 2>> >>,
    << <<1, -1, -1>>, <<2, -2, 0>>, <<2, -2, 0>> >>,
    << <<3, 3, 3>>, <<0, 2, -2>>, <<-1, -1, -1>>, <<-2, 2, 0>> >>,
    << <<-4, 0, 0>>, <<-1, -1, -1>>, <<-2, -2, -2>>, <<1, 1, 1>> >>,
    << <<-4, 0, 0>>, <<-1, -1, -1>>, <<-2, -2, -2>> >>,
    << <<1, -1, 1>> >>,
    << <<1, 1, 1>>, <<1, -1, 1>> >>,
    << <<0, -2, 2>>, <<0, 2, -2>> >>,
    << <<0, -4, 0>>, <<1, 1, -1>>, <<2, 2, -2>> >>,
    << <<1, -1, 1>>, <<1, -1, 1>> >>,
    << <<1, -1, 1>>, <<-2, 0, -2>>, <<2, 0, 2>> >>,
    << <<0, -2, 2>>, <<0, 2, -2>>, <<1, -1, 1>> >>,
    << <<-3, -3, 3>>, <<0, 2, 2>>, <<1, 1, -1>>, <<-2, 0, -2>> >>,
    << <<-1, 1, 1>>, <<1, -1, 1>> >>,
    << <<1, 1, 1>>, <<1, -1, 1>>, <<-1, 1, 1>> >>,
    << <<0, 0, 4>>, <<-2, -2, 2>>, <<-1, -1, 1>> >>,
    << <<2, 2, -2>>, <<2, 2, -2>>, <<1, 1, -1>>, <<-1, -1, 1>> >>,
    << <<1, -1, 1>>, <<2, -2, 0>>, <<2, -2, 0>> >>,
    << <<4, 0, 0>>, <<2, -2, 2>>, <<-1, 1, -1>>, <<1, -1, 1>> >>,
    << <<0, 2, -2>>, <<3, -3, -3>>, <<-1, 1, 1>>, <<2, 2, 0>> >>,
    << <<-4, 0, 0>>, <<-2, -2, 2>>, <<-1, -1, 1>> >>,
    << <<2, -2, 0>>, <<-2, 2, 0>> >>,
    << <<0, 4, 0>>, <<-2, 2, 2>>, <<1, -1, -1>> >>,
    << <<0, 4, 0>>, <<1, -1, 1>>, <<-2, 2, -2>> >>,
    << <<0, 4, 0>>, <<0, -4, 0>> >>,
    << <<2, -2, 0>>, <<-2, 2, 0>>, <<1, -1, 1>> >>,
    << <<-3, -3, -3>>, <<-2, 0, 2>>, <<-1, -1, -1>>, <<-2, 2, 0>> >>,
    << <<1, 1, 1>>, <<0, -4, 0>>, <<-2, -2, -2>>, <<-1, -1, -1>> >>,
    << <<0, -4, 0>>, <<-2, -2, -2>>, <<-1, -1, -1>> >>,
    << <<-1, 1, 1>>, <<2, -2, 0>>, <<-2, 2, 0>> >>,
    << <<0, 4, 0>>, <<2, 2, -2>>, <<-1, -1, 1>>, <<-1, -1, 1>> >>,
    << <<-3, 3, -3>>, <<-2, -2, 0>>, <<-1, 1, -1>>, <<-2, 0, 2>> >>,
    << <<0, 4, 0>>, <<2, 2, -2>>, <<-1, -1, 1>> >>,
    << <<2, -2, 0>>, <<-2, 2, 0>>, <<2, -2, 0>>, <<2, -2, 0>> >>,
    << <<-2, -2, 0>>, <<-2, -2, 0>>, <<-1, -1, 1>> >>,
    << <<1, 1, 1>>, <<-2, -2, 0>>, <<-2, -2, 0>> >>,
    << <<-2, -2, 0>>, <<-2, -2, 0>> >>,
    << <<-1, -1, 1>> >>,
    << <<1, 1, 1>>, <<-1, -1, 1>> >>,
    << <<-1, -1, 1>>, <<-1, -1, 1>> >>,
    << <<-1, -1, 1>>, <<-2, -2, 0>>, <<2, 2, 0>> >>,
    << <<0, -2, 2>>, <<0, -2, 2>> >>,
    << <<0, 0, 4>>, <<2, -2, 2>>, <<1, -1, 1>> >>,
    << <<0, -2, 2>>, <<0, -2, 2>>, <<-1, -1, 1>> >>,
    << <<3, -3, 3>>, <<0, -2, -2>>, <<-1, 1, -1>>, <<2, 2, 0>> >>,
    << <<-1, -1, 1>>, <<-1, 1, 1>> >>,
    << <<1, 1, 1>>, <<-1, -1, 1>>, <<-1, 1, 1>> >>,
    << <<-1, -1, 1>>, <<-2, 0, 2>>, <<-2, 0, 2>> >>,
    << <<4, 0, 0>>, <<-2, -2, 2>>, <<-1, -1, 1>>, <<-1, -1, 1>> >>,
    << <<0, 4, 0>>, <<-2, 2, -2>>, <<1, -1, 1>> >>,
    << <<-2, 2, -2>>, <<-2, 2, -2>>, <<-1, 1, -1>>, <<-1, 1, -1>> >>,
    << <<-2, 0, -2>>, <<3, -3, -3>>, <<0, 2, -2>>, <<-1, 1, 1>> >>,
    << <<4, 0, 0>>, <<-2, 2, -2>>, <<1, -1, 1>> >>,
    << <<-2, 0, 2>>, <<2, 0, -2>> >>,
    << <<0, 0, 4>>, <<-2, 2, 2>>, <<-1, 1, 1>> >>,
    << <<-1, -1, 1>>, <<-2, 0, 2>>, <<2, 0, -2>> >>,
    << <<-2, 0, -2>>, <<-3, 3, 3>>, <<-2, -2, 0>>, <<-1, 1, 1>> >>,
    << <<0, 0, -4>>, <<2, 2, -2>>, <<-1, -1, 1>> >>,
    << <<0, 0, 4>>, <<0, 0, 4>> >>,
    << <<1, 1, 1>>, <<1, 1, 1>>, <<2, 2, 2>>, <<0, 0, 4>> >>,
    << <<1, 1, 1>>, <<2, 2, 2>>, <<0, 0, 4>> >>,
    << <<-2, 0, 2>>, <<2, 0, -2>>, <<-1, 1, 1>> >>,
    << <<0, 0, 4>>, <<2, -2, 2>>, <<1, -1, 1>>, <<1, -1, 1>> >>,
    << <<-2, 0, 2>>, <<-2, 0, 2>>, <<-2, 0, 2>>, <<2, 0, -2>> >>,
    << <<1, -1, 1>>, <<2, 0, 2>>, <<2, 0, 2>> >>,
    << <<2, 0, 2>>, <<-3, -3, 3>>, <<-2, 2, 0>>, <<-1, -1, 1>> >>,
    << <<0, 0, 4>>, <<2, -2, 2>>, <<1, -1, 1>> >>,
    << <<1, 1, 1>>, <<2, 0, 2>>, <<2, 0, 2>> >>,
    << <<2, 0, 2>>, <<2, 0, 2>> >>,
    << <<-1, -1, 1>>, <<1, -1, 1>> >>,
    << <<1, 1, 1>>, <<-1, -1, 1>>, <<1, -1, 1>> >>,
    << <<-1, -1, 1>>, <<0, -2, 2>>, <<0, 2, -2>> >>,
    << <<0, -4, 0>>, <<1, 1, -1>>, <<2, 2, -2>>, <<-1, -1, 1>> >>,
    << <<0, -2, 2>>, <<0, -2, 2>>, <<1, -1, 1>> >>,
    << <<0, 0, 4>>, <<2, -2, 2>>, <<1, -1, 1>>, <<1, -1, 1>> >>,
    << <<0, -2, 2>>, <<0, -2, 2>>, <<0, -2, 2>>, <<0, 2, -2>> >>,
    << <<0, 2, 2>>, <<0, 2, 2>>, <<1, -1, -1>> >>,
    << <<-1, 1, 1>>, <<1, -1, 1>>, <<-1, -1, 1>> >>,
    << <<-1, 1, 1>>, <<1, -1, 1>>, <<-1, -1, 1>>, <<1, 1, 1>> >>,
    << <<0, 0, 4>>, <<-2, -2, 2>>, <<-1, -1, 1>>, <<-1, -1, 1>> >>,
    << <<1, 1, 1>>, <<1, -1, 1>>, <<1, -1, -1>> >>,
    << <<0, 4, 0>>, <<-2, 2, -2>>, <<1, -1, 1>>, <<1, -1, 1>> >>,
    << <<1, 1, 1>>, <<-1, -1, 1>>, <<1, -1, -1>> >>,
    << <<0, -2, -2>>, <<0, 2, 2>>, <<1, 1, 1>> >>,
    << <<1, 1, 1>>, <<1, -1, -1>> >>,
    << <<4, 0, 0>>, <<2, -2, -2>>, <<1, -1, -1>> >>,
    << <<-2, 2, 2>>, <<-1, 1, 1>>, <<-2, 2, 2>>, <<1, -1, -1>> >>,
    << <<3, -3, 3>>, <<0, 2, 2>>, <<-1, 1, -1>>, <<-2, 0, 2>> >>,
    << <<0, -4, 0>>, <<-2, 2, 2>>, <<-1, 1, 1>> >>,
    << <<-3, -3, 3>>, <<2, -2, 0>>, <<0, 2, 2>>, <<-1, -1, 1>> >>,
    << <<-1, 1, 1>>, <<-2, 2, 2>>, <<0, 0, 4>> >>,
    << <<1, 1, 1>>, <<0, 2, 2>>, <<0, 2, 2>> >>,
    << <<0, 2, 2>>, <<0, 2, 2>> >>,
    << <<4, 0, 0>>, <<2, 2, 2>>, <<1, 1, 1>>, <<1, 1, 1>> >>,
    << <<1, -1, 1>>, <<-1, -1, 1>>, <<1, 1, 1>> >>,
    << <<-2, 0, -2>>, <<2, 0, 2>>, <<1, 1, 1>> >>,
    << <<1, 1, 1>>, <<1, -1, 1>> >>,
    << <<-2, -2, 0>>, <<2, 2, 0>>, <<1, 1, 1>> >>,
    << <<1, 1, 1>>, <<-1, -1, 1>> >>,
    << <<1, 1, 1>>, <<1, 1, 1>> >>,
    << <<1, 1, 1>> >>,
    << <<1, 1, 1>> >>,
    << <<1, 1, 1>>, <<1, 1, 1>> >>,
    << <<1, 1, 1>>, <<-1, -1, 1>> >>,
    << <<-2, -2, 0>>, <<2, 2, 0>>, <<1, 1, 1>> >>,
    << <<1, 1, 1>>, <<1, -1, 1>> >>,
    << <<-2, 0, -2>>, <<2, 0, 2>>, <<1, 1, 1>> >>,
    << <<1, -1, 1>>, <<-1, -1, 1>>, <<1, 1, 1>> >>,
    << <<4, 0, 0>>, <<2, 2, 2>>, <<1, 1, 1>>, <<1, 1, 1>> >>,
    << <<0, 2, 2>>, <<0, 2, 2>> >>,
    << <<1, 1, 1>>, <<0, 2, 2>>, <<0, 2, 2>> >>,
    << <<-1, 1, 1>>, <<-2, 2, 2>>, <<0, 0, 4>> >>,
    << <<-3, -3, 3>>, <<2, -2, 0>>, <<0, 2, 2>>, <<-1, -1, 1>> >>,
    << <<0, -4, 0>>, <<-2, 2, 2>>, <<-1, 1, 1>> >>,
    << <<3, -3, 3>>, <<0, 2, 2>>, <<-1, 1, -1>>, <<-2, 0, 2>> >>,
    << <<-2, 2, 2>>, <<-1, 1, 1>>, <<-2, 2, 2>>, <<1, -1, -1>> >>,
    << <<4, 0, 0>>, <<2, -2, -2>>, <<1, -1, -1>> >>,
    << <<1, 1, 1>>, <<1, -1, -1>> >>,
    << <<0, -2, -2>>, <<0, 2, 2>>, <<1, 1, 1>> >>,
    << <<1, 1, 1>>, <<-1, -1, 1>>, <<1, -1, -1>> >>,
    << <<0, 4, 0>>, <<-2, 2, -2>>, <<1, -1, 1>>, <<1, -1, 1>> >>,
    << <<1, 1, 1>>, <<1, -1, 1>>, <<1, -1, -1>> >>,
    << <<0, 0, 4>>, <<-2, -2, 2>>, <<-1, -1, 1>>, <<-1, -1, 1>> >>,
    << <<-1, 1, 1>>, <<1, -1, 1>>, <<-1, -1, 1>>, <<1, 1, 1>> >>,
    << <<-1, 1, 1>>, <<1, -1, 1>>, <<-1, -1, 1>> >>,
    << <<0, 2, 2>>, <<0, 2, 2>>, <<1, -1, -1>> >>,
    << <<0, -2, -2>>, <<0, 2, 2>>, <<0, 2, 2>>, <<0, 2, 2>> >>,
    << <<0, 0, 4>>, <<2, -2, 2>>, <<1, -1, 1>>, <<1, -1, 1>> >>,
    << <<0, -2, 2>>, <<0, -2, 2>>, <<1, -1, 1>> >>,
    << <<0, -4, 0>>, <<1, 1, -1>>, <<2, 2, -2>>, <<-1, -1, 1>> >>,
    << <<-1, -1, 1>>, <<0, -2, 2>>, <<0, 2, -2>> >>,
    << <<1, 1, 1>>, <<-1, -1, 1>>, <<1, -1, 1>> >>,
    << <<-1, -1, 1>>, <<1, -1, 1>> >>,
    << <<2, 0, 2>>, <<2, 0, 2>> >>,
    << <<1, 1, 1>>, <<2, 0, 2>>, <<2, 0, 2>> >>,
    << <<0, 0, 4>>, <<2, -2, 2>>, <<1, -1, 1>> >>,
    << <<2, 0, 2>>, <<-3, -3, 3>>, <<-2, 2, 0>>, <<-1, -1, 1>> >>,
    << <<1, -1, 1>>, <<2, 0, 2>>, <<2, 0, 2>> >>,
    << <<-2, 0, -2>>, <<2, 0, 2>>, <<2, 0, 2>>, <<2, 0, 2>> >>,
    << <<0, 0, 4>>, <<2, -2, 2>>, <<1, -1, 1>>, <<1, -1, 1>> >>,
    << <<-2, 0, 2>>, <<2, 0, -2>>, <<-1, 1, 1>> >>,
    << <<1, 1, 1>>, <<2, 2, 2>>, <<0, 0, 4>> >>,
    << <<1, 1, 1>>, <<1, 1, 1>>, <<2, 2, 2>>, <<0, 0, 4>> >>,
    << <<0, 0, 4>>, <<0, 0, 4>> >>,
    << <<0, 0, -4>>, <<2, 2, -2>>, <<-1, -1, 1>> >>,
    << <<-2, 0, -2>>, <<-3, 3, 3>>, <<-2, -2, 0>>, <<-1, 1, 1>> >>,
    << <<-1, -1, 1>>, <<-2, 0, 2>>, <<2, 0, -2>> >>,
    << <<0, 0, 4>>, <<-2, 2, 2>>, <<-1, 1, 1>> >>,
    << <<-2, 0, 2>>, <<2, 0, -2>> >>,
    << <<4, 0, 0>>, <<-2, 2, -2>>, <<1, -1, 1>> >>,
    << <<-2, 0, -2>>, <<3, -3, -3>>, <<0, 2, -2>>, <<-1, 1, 1>> >>,
    << <<-2, 2, -2>>, <<-2, 2, -2>>, <<-1, 1, -1>>, <<-1, 1, -1>> >>,
    << <<0, 4, 0>>, <<-2, 2, -2>>, <<1, -1, 1>> >>,
    << <<4, 0, 0>>, <<-2, -2, 2>>, <<-1, -1, 1>>, <<-1, -1, 1>> >>,
    << <<-1, -1, 1>>, <<-2, 0, 2>>, <<-2, 0, 2>> >>,
    << <<1, 1, 1>>, <<-1, -1, 1>>, <<-1, 1, 1>> >>,
    << <<-1, -1, 1>>, <<-1, 1, 1>> >>,
    << <<3, -3, 3>>, <<0, -2, -2>>, <<-1, 1, -1>>, <<2, 2, 0>> >>,
    << <<0, -2, 2>>, <<0, -2, 2>>, <<-1, -1, 1>> >>,
    << <<0, 0, 4>>, <<2, -2, 2>>, <<1, -1, 1>> >>,
    << <<0, -2, 2>>, <<0, -2, 2>> >>,
    << <<-1, -1, 1>>, <<-2, -2, 0>>, <<2, 2, 0>> >>,
    << <<-1, -1, 1>>, <<-1, -1, 1>> >>,
    << <<1, 1, 1>>, <<-1, -1, 1>> >>,
    << <<-1, -1, 1>> >>,
    << <<-2, -2, 0>>, <<-2, -2, 0>> >>,
    << <<1, 1, 1>>, <<-2, -2, 0>>, <<-2, -2, 0>> >>,
    << <<-2, -2, 0>>, <<-2, -2, 0>>, <<-1, -1, 1>> >>,
    << <<-2, -2, 0>>, <<-2, -2, 0>>, <<-2, -2, 0>>, <<2, 2, 0>> >>,
    << <<0, 4, 0>>, <<2, 2, -2>>, <<-1, -1, 1>> >>,
    << <<-3, 3, -3>>, <<-2, -2, 0>>, <<-1, 1, -1>>, <<-2, 0, 2>> >>,
    << <<0, 4, 0>>, <<2, 2, -2>>, <<-1, -1, 1>>, <<-1, -1, 1>> >>,
    << <<-1, 1, 1>>, <<2, -2, 0>>, <<-2, 2, 0>> >>,
    << <<0, -4, 0>>, <<-2, -2, -2>>, <<-1, -1, -1>> >>,
    << <<1, 1, 1>>, <<0, -4, 0>>, <<-2, -2, -2>>, <<-1, -1, -1>> >>,
    << <<-3, -3, -3>>, <<-2, 0, 2>>, <<-1, -1, -1>>, <<-2, 2, 0>> >>,
    << <<2, -2, 0>>, <<-2, 2, 0>>, <<1, -1, 1>> >>,
    << <<0, 4, 0>>, <<0, -4, 0>> >>,
    << <<0, 4, 0>>, <<1, -1, 1>>, <<-2, 2, -2>> >>,
    << <<0, 4, 0>>, <<-2, 2, 2>>, <<1, -1, -1>> >>,
    << <<2, -2, 0>>, <<-2, 2, 0>> >>,
    << <<-4, 0, 0>>, <<-2, -2, 2>>, <<-1, -1, 1>> >>,
    << <<0, 2, -2>>, <<3, -3, -3>>, <<-1, 1, 1>>, <<2, 2, 0>> >>,
    << <<4, 0, 0>>, <<2, -2, 2>>, <<-1, 1, -1>>, <<1, -1, 1>> >>,
    << <<1, -1, 1>>, <<2, -2, 0>>, <<2, -2, 0>> >>,
    << <<2, 2, -2>>, <<2, 2, -2>>, <<1, 1, -1>>, <<-1, -1, 1>> >>,
    << <<0, 0, 4>>, <<-2, -2, 2>>, <<-1, -1, 1>> >>,
    << <<1, 1, 1>>, <<1, -1, 1>>, <<-1, 1, 1>> >>,
    << <<-1, 1, 1>>, <<1, -1, 1>> >>,
    << <<-3, -3, 3>>, <<0, 2, 2>>, <<1, 1, -1>>, <<-2, 0, -2>> >>,
    << <<0, -2, 2>>, <<0, 2, -2>>, <<1, -1, 1>> >>,
    << <<1, -1, 1>>, <<-2, 0, -2>>, <<2, 0, 2>> >>,
    << <<1, -1, 1>>, <<1, -1, 1>> >>,
    << <<0, -4, 0>>, <<1, 1, -1>>, <<2, 2, -2>> >>,
    << <<0, -2, 2>>, <<0, 2, -2>> >>,
    << <<1, 1, 1>>, <<1, -1, 1>> >>,
    << <<1, -1, 1>> >>,
    << <<-4, 0, 0>>, <<-1, -1, -1>>, <<-2, -2, -2>> >>,
    << <<-4, 0, 0>>, <<-1, -1, -1>>, <<-2, -2, -2>>, <<1, 1, 1>> >>,
    << <<3, 3, 3>>, <<0, 2, -2>>, <<-1, -1, -1>>, <<-2, 2, 0>> >>,
    << <<1, -1, -1>>, <<2, -2, 0>>, <<2, -2, 0>> >>,
    << <<1, 1, 1>>, <<3, 3, 3>>, <<0, -2, 2>>, <<-2, 0, 2>> >>,
    << <<-2, 0, 2>>, <<-2, 0, 2>>, <<1, -1, -1>> >>,
    << <<0, -2, -2>>, <<0, 2, 2>>, <<-1, 1, 1>> >>,
    << <<-1, 1, 1>>, <<1, -1, -1>> >>,
    << <<-1, -1, -1>>, <<-2, -2, -2>>, <<2, 2, 2>>, <<1, 1, 1>> >>,
    << <<-1, -1, 1>>, <<1, -1, 1>>, <<1, -1, -1>> >>,
    << <<0, 0, -4>>, <<2, 2, 2>>, <<-1, -1, -1>> >>,
    << <<1, -1, 1>>, <<1, -1, -1>> >>,
    << <<0, -4, 0>>, <<2, 2, 2>>, <<1, 1, 1>> >>,
    << <<-1, -1, 1>>, <<1, -1, -1>> >>,
    << <<0, -2, -2>>, <<0, 2, 2>> >>,
    << <<1, -1, -1>> >>,
    << <<4, 0, 0>>, <<4, 0, 0>> >>,
    << <<-4, 0, 0>>, <<-2, 2, 2>>, <<-1, 1, 1>> >>,
    << <<4, 0, 0>>, <<2, -2, 2>>, <<-1, 1, -1>> >>,
    << <<2, -2, 0>>, <<2, -2, 0>> >>,
    << <<4, 0, 0>>, <<-2, -2, 2>>, <<-1, -1, 1>> >>,
    << <<-2, 0, 2>>, <<-2, 0, 2>> >>,
    << <<1, 1, 1>>, <<-1, 1, 1>> >>,
    << <<-1, 1, 1>> >>,
    << <<4, 0, 0>>, <<2, 2, 2>>, <<1, 1, 1>> >>,
    << <<1, -1, 1>>, <<-1, -1, 1>> >>,
    << <<-2, 0, -2>>, <<2, 0, 2>> >>,
    << <<1, -1, 1>> >>,
    << <<-2, -2, 0>>, <<2, 2, 0>> >>,
    << <<-1, -1, 1>> >>,
    << <<1, 1, 1>> >>,
    << <<0, 0, 0>> >>
>>

----------------------------------------------------------------------------
(* Arrays *)

Min(S) == CHOOSE x \in S : \A y \in S : x <= y

Max(S) == CHOOSE x \in S : \A y \in S : y <= x

\* the index triples of an array of the given shape
Box(shape) ==
    {<<x0, x1, x2>> : x0 \in 0 .. shape[1] - 1,
                      x1 \in 0 .. shape[2] - 1,
                      x2 \in 0 .. shape[3] - 1}

\* numpy broadcasting of two shapes: per axis equal, or one of them 1
Broadcastable(s, t) == \A a \in 1 .. 3 : s[a] = t[a] \/ s[a] = 1 \/ t[a] = 1

BroadcastShape(s, t) == [a \in 1 .. 3 |-> IF s[a] = 1 THEN t[a] ELSE s[a]]

\* the element of a mask of the given shape that broadcasting reads at v
BroadcastAt(mask, shape, v) ==
    [a \in 1 .. 3 |-> IF shape[a] = 1 THEN 0 ELSE v[a]] \in mask

\* the elements of a set of index triples in C (row-major) order,
\* the order in which boolean-mask indexing a[mask] lists them
RECURSIVE COrder(_)
COrder(S) ==
    IF S = {} THEN <<>>
    ELSE LET first == CHOOSE p \in S : \A q \in S :
                          \/ p[1] < q[1]
                          \/ p[1] = q[1] /\ p[2] < q[2]
                          \/ p[1] = q[1] /\ p[2] = q[2] /\ p[3] <= q[3]
         IN  <<first>> \o COrder(S \ {first})

----------------------------------------------------------------------------
(* compute_surface_distances, step by step *)

Abs(x) == IF x < 0 THEN 0 - x ELSE x

\* norm as the sum of the absolute components
norm_Manhattan(n) == ((Abs(n[1]) + Abs(n[2]) + Abs(n[3])) * Unit) \div 8

\* np.linalg.norm of a normal vector given in eighths
norm(n) == ISqrt(((n[1] * n[1] + n[2] * n[2] + n[3] * n[3]) * Unit * Unit) \div 64)

\* the area of the surfel of one neighbour code under the spacing
SurfaceAreaOfCode(code, spacing) ==
    LET normals == neighbour_code_to_normals[code + 1]
        n(idx) == <<normals[idx][1] * spacing[2] * spacing[3],
                    normals[idx][2] * spacing[1] * spacing[3],
                    normals[idx][3] * spacing[1] * spacing[2]>>
    IN  FSum([normal_idx \in 1 .. Len(normals) |-> norm(n(normal_idx))])

\* the table as np.zeros([256]) leaves it, the loop that fills it skipped
neighbour_code_to_surface_area_Zeros(spacing) == [code \in 0 .. 255 |-> 0]

\* the table of the areas of all 256 surfels
neighbour_code_to_surface_area(spacing) ==
    [code \in 0 .. 255 |-> SurfaceAreaOfCode(code, spacing)]

\* mask_gt | mask_pred, as the set of true voxels of the broadcast array
mask_all(m_gt, s_gt, m_pred, s_pred) ==
    {v \in Box(BroadcastShape(s_gt, s_pred)) :
        BroadcastAt(m_gt, s_gt, v) \/ BroadcastAt(m_pred, s_pred, v)}

\* first and last nonzero index of the maximum projection to each axis
bbox_min(all) == [a \in 1 .. 3 |-> Min({v[a] : v \in all})]

bbox_max(all) == [a \in 1 .. 3 |-> Max({v[a] : v \in all})]

\* shape of the cropped arrays: (bbox_max - bbox_min) + 2
CropShape(bmin, bmax) == [a \in 1 .. 3 |-> (bmax[a] - bmin[a]) + 2]

\* mask[bmin:bmax + 1] along axis a: a slice is clipped to the array
SliceStart(shape, bmin, a) == IF bmin[a] < shape[a] THEN bmin[a] ELSE shape[a]

SliceLen(shape, bmin, bmax, a) ==
    (IF bmax[a] + 1 < shape[a] THEN bmax[a] + 1 ELSE shape[a])
        - SliceStart(shape, bmin, a)

\* cropmask[0:-1, 0:-1, 0:-1] = mask[...] is accepted when the slice has the
\* target's length on every axis or length 1 (it is then broadcast)
CropAssignable(shape, bmin, bmax) ==
    \A a \in 1 .. 3 :
        \/ SliceLen(shape, bmin, bmax, a) = (bmax[a] - bmin[a]) + 1
        \/ SliceLen(shape, bmin, bmax, a) = 1

\* cropmask with the zero layer on the min side: cropmask[1:, 1:, 1:] = mask[...]
cropmask_PadMinSide(mask, shape, bmin, bmax) ==
    {c \in Box([a \in 1 .. 3 |-> (bmax[a] - bmin[a]) + 2]) :
        /\ \A a \in 1 .. 3 : c[a] >= 1
        /\ [a \in 1 .. 3 |-> bmin[a] + c[a] - 1] \in mask}

\* the true voxels of the cropped, zero-padded mask
cropmask(mask, shape, bmin, bmax) ==
    {c \in Box(CropShape(bmin, bmax)) :
        /\ \A a \in 1 .. 3 : c[a] <= bmax[a] - bmin[a]
        /\ [a \in 1 .. 3 |->
              SliceStart(shape, bmin, a)
                + (IF SliceLen(shape, bmin, bmax, a) = 1 THEN 0 ELSE c[a])]
           \in mask}

\* the kernel mirrored on every axis, as a convolution would apply it
kernel_Flipped == << << <<1, 2>>, <<4, 8>> >>,
                     << <<16, 32>>, <<64, 128>> >> >>

\* the 2x2x2 correlation kernel, kernel[i + 1][j + 1][k + 1] for i, j, k in 0..1
kernel == << << <<128, 64>>, <<32, 16>> >>,
             << <<8, 4>>, <<2, 1>> >> >>

\* scipy.ndimage correlate with mode "constant", cval 0, at point c: the
\* kernel element (i, j, k) weighs the voxel c + (i, j, k) - 1; uint8 result
neighbour_code(crop, c) ==
    LET term(i, j, k) ==
            IF <<c[1] + i - 1, c[2] + j - 1, c[3] + k - 1>> \in crop
            THEN kernel[i + 1][j + 1][k + 1] ELSE 0
    IN  (term(0, 0, 0) + term(0, 0, 1) + term(0, 1, 0) + term(0, 1, 1)
         + term(1, 0, 0) + term(1, 0, 1) + term(1, 1, 0) + term(1, 1, 1)) % 256

\* the corner points with a surface voxel: code neither 0 nor 255
borders(crop, cshape) ==
    {c \in Box(cshape) : neighbour_code(crop, c) # 0 /\ neighbour_code(crop, c) # 255}

\* squared distance counted in voxels, the spacing ignored
SqDist_InVoxels(p, q, spacing) ==
    (p[1] - q[1]) * (p[1] - q[1])
  + (p[2] - q[2]) * (p[2] - q[2])
  + (p[3] - q[3]) * (p[3] - q[3])

\* squared physical distance between two corner points
SqDist(p, q, spacing) ==
    (spacing[1] * (p[1] - q[1])) * (spacing[1] * (p[1] - q[1]))
  + (spacing[2] * (p[2] - q[2])) * (spacing[2] * (p[2] - q[2]))
  + (spacing[3] * (p[3] - q[3])) * (spacing[3] * (p[3] - q[3]))

\* distmap with the distance transform called also on an empty border set:
\* no border point, every distance 0
distmap_NoInfBranch(border, spacing, p) ==
    FSqrt(IF border # {} THEN Min({SqDist(p, q, spacing) : q \in border}) ELSE 0)

\* distmap as a city-block (taxicab) transform: the smallest sum of the
\* per-axis physical offsets
distmap_CityBlock(border, spacing, p) ==
    IF border # {}
    THEN Min({(Abs(spacing[1] * (p[1] - q[1])) + Abs(spacing[2] * (p[2] - q[2]))
               + Abs(spacing[3] * (p[3] - q[3]))) * Unit : q \in border})
    ELSE Inf

\* the distance map of a border set at point p: the exact Euclidean distance
\* transform when there is a border, np.Inf everywhere when there is none
distmap(border, spacing, p) ==
    IF border # {}
    THEN FSqrt(Min({SqDist(p, q, spacing) : q \in border}))
    ELSE Inf

\* the surfels of one mask, unsorted: <<distance, area>> per border point,
\* distance read from the other mask's distance map
surfels(border, crop, other_border, spacing) ==
    LET pts == COrder(border)
    IN  [i \in 1 .. Len(pts) |->
            <<distmap(other_border, spacing, pts[i]),
              neighbour_code_to_surface_area(spacing)[neighbour_code(crop, pts[i])]>>]

\* order of Python tuples (distance, area)
PairLe(x, y) == x[1] < y[1] \/ (x[1] = y[1] /\ x[2] <= y[2])

RECURSIVE InsertSorted(_, _)
InsertSorted(x, s) ==
    IF s = <<>> THEN <<x>>
    ELSE IF PairLe(x, Head(s)) THEN <<x>> \o s
    ELSE <<Head(s)>> \o InsertSorted(x, Tail(s))

\* sorted in descending order
RECURSIVE InsertDescending(_, _)
InsertDescending(x, s) ==
    IF s = <<>> THEN <<x>>
    ELSE IF PairLe(Head(s), x) THEN <<x>> \o s
    ELSE <<Head(s)>> \o InsertDescending(x, Tail(s))

RECURSIVE sorted_Descending(_)
sorted_Descending(s) ==
    IF s = <<>> THEN <<>> ELSE InsertDescending(Head(s), sorted_Descending(Tail(s)))

\* sorted that leaves the list as it is
sorted_Unsorted(s) == s

\* sorted(zip(distances, areas))
RECURSIVE sorted(_)
sorted(s) == IF s = <<>> THEN <<>> ELSE InsertSorted(Head(s), sorted(Tail(s)))

Column(s, k) == [i \in 1 .. Len(s) |-> s[i][k]]

\* the dict returned for two all-false masks: four empty arrays
EmptyResult ==
    [distances_gt_to_pred |-> <<>>, distances_pred_to_gt |-> <<>>,
     surfel_areas_gt |-> <<>>, surfel_areas_pred |-> <<>>]

\* whether the call raises (numpy's ValueError: the shapes do not broadcast,
\* or a cropped slice cannot be assigned)
Raises(m_gt, s_gt, m_pred, s_pred) ==
    \/ ~Broadcastable(s_gt, s_pred)
    \/ LET all == mask_all(m_gt, s_gt, m_pred, s_pred)
       IN  /\ all # {}
           /\ \/ ~CropAssignable(s_gt, bbox_min(all), bbox_max(all))
              \/ ~CropAssignable(s_pred, bbox_min(all), bbox_max(all))

\* the surfels of both masks before sorting, for a non-empty union:
\* distances_gt_to_pred = distmap_pred[borders_gt] with surfel_areas_gt, and
\* distances_pred_to_gt = distmap_gt[borders_pred] with surfel_areas_pred
unsorted_surfels(m_gt, s_gt, m_pred, s_pred, spacing) ==
    LET all == mask_all(m_gt, s_gt, m_pred, s_pred)
        bmin == bbox_min(all)
        bmax == bbox_max(all)
        cshape == CropShape(bmin, bmax)
        cropmask_gt == cropmask(m_gt, s_gt, bmin, bmax)
        cropmask_pred == cropmask(m_pred, s_pred, bmin, bmax)
        borders_gt == borders(cropmask_gt, cshape)
        borders_pred == borders(cropmask_pred, cshape)
    IN  [gt |-> surfels(borders_gt, cropmask_gt, borders_pred, spacing),
         pred |-> surfels(borders_pred, cropmask_pred, borders_gt, spacing)]

\* the dict the call returns when it does not raise
compute_surface_distances(m_gt, s_gt, m_pred, s_pred, spacing) ==
    IF mask_all(m_gt, s_gt, m_pred, s_pred) = {} THEN EmptyResult
    ELSE
    LET unsorted == unsorted_surfels(m_gt, s_gt, m_pred, s_pred, spacing)
        sorted_surfels_gt == sorted(unsorted.gt)
        sorted_surfels_pred == sorted(unsorted.pred)
    IN  [distances_gt_to_pred |-> Column(sorted_surfels_gt, 1),
         distances_pred_to_gt |-> Column(sorted_surfels_pred, 1),
         surfel_areas_gt |-> Column(sorted_surfels_gt, 2),
         surfel_areas_pred |-> Column(sorted_surfels_pred, 2)]

----------------------------------------------------------------------------
(* The metric aggregators *)

\* elementwise product of two float arrays of the same length
Times(xs, ys) == [i \in 1 .. Len(xs) |-> FMul(xs[i], ys[i])]

\* Within with distances < tolerance_mm
RECURSIVE Within_Strict(_, _, _)
Within_Strict(distances, areas, tolerance_mm) ==
    IF distances = <<>> THEN <<>>
    ELSE (IF FLt(Head(distances), tolerance_mm) THEN <<Head(areas)>> ELSE <<>>)
         \o Within_Strict(Tail(distances), Tail(areas), tolerance_mm)

\* areas[distances <= tolerance_mm]: the areas kept by the boolean mask
RECURSIVE Within(_, _, _)
Within(distances, areas, tolerance_mm) ==
    IF distances = <<>> THEN <<>>
    ELSE (IF FLe(Head(distances), tolerance_mm) THEN <<Head(areas)>> ELSE <<>>)
         \o Within(Tail(distances), Tail(areas), tolerance_mm)

\* np.searchsorted(a, v, side='right'): the number of elements not above v
searchsorted_Right(a, v) == Cardinality({i \in 1 .. Len(a) : FLe(a[i], v)})

\* np.searchsorted(a, v): the number of elements of the sorted array a that
\* are smaller than v (NaN sorts last)
searchsorted(a, v) == Cardinality({i \in 1 .. Len(a) : FLt(a[i], v)})

\* PyMax that keeps its first argument
PyMax_First(x, y) == x

\* Python's max(x, y): y when y > x, otherwise x
PyMax(x, y) == IF FLt(x, y) THEN y ELSE x

compute_average_surface_distance(sd) ==
    <<FDiv(FSum(Times(sd.distances_gt_to_pred, sd.surfel_areas_gt)),
           FSum(sd.surfel_areas_gt)),
      FDiv(FSum(Times(sd.distances_pred_to_gt, sd.surfel_areas_pred)),
           FSum(sd.surfel_areas_pred))>>

\* perc_distance with the empty direction contributing 0 instead of np.Inf
perc_distance_EmptyIsZero(distances, areas, percent) ==
    IF Len(distances) > 0
    THEN LET total == FSum(areas)
             running == cumsum(areas)
             surfel_areas_cum == [i \in 1 .. Len(areas) |-> FDiv(running[i], total)]
             idx == searchsorted(surfel_areas_cum, (percent * Unit) \div 100)
         IN  distances[(IF idx < Len(distances) - 1 THEN idx
                        ELSE Len(distances) - 1) + 1]
    ELSE 0

\* one direction of compute_robust_hausdorff; percent is a whole number
perc_distance(distances, areas, percent) ==
    IF Len(distances) > 0
    THEN LET total == FSum(areas)
             running == cumsum(areas)
             surfel_areas_cum == [i \in 1 .. Len(areas) |-> FDiv(running[i], total)]
             idx == searchsorted(surfel_areas_cum, (percent * Unit) \div 100)
         IN  distances[(IF idx < Len(distances) - 1 THEN idx
                        ELSE Len(distances) - 1) + 1]
    ELSE Inf

compute_robust_hausdorff(sd, percent) ==
    PyMax(perc_distance(sd.distances_gt_to_pred, sd.surfel_areas_gt, percent),
          perc_distance(sd.distances_pred_to_gt, sd.surfel_areas_pred, percent))

compute_surface_overlap_at_tolerance(sd, tolerance_mm) ==
    <<FDiv(FSum(Within(sd.distances_gt_to_pred, sd.surfel_areas_gt, tolerance_mm)),
           FSum(sd.surfel_areas_gt)),
      FDiv(FSum(Within(sd.distances_pred_to_gt, sd.surfel_areas_pred, tolerance_mm)),
           FSum(sd.surfel_areas_pred))>>

\* surface Dice with the ground-truth area alone as denominator
compute_surface_dice_GtAreaOnly(sd, tolerance_mm) ==
    LET overlap_gt ==
            FSum(Within(sd.distances_gt_to_pred, sd.surfel_areas_gt, tolerance_mm))
        overlap_pred ==
            FSum(Within(sd.distances_pred_to_gt, sd.surfel_areas_pred, tolerance_mm))
    IN  FDiv(FAdd(overlap_gt, overlap_pred), FSum(sd.surfel_areas_gt))

compute_surface_dice_at_tolerance(sd, tolerance_mm) ==
    LET overlap_gt ==
            FSum(Within(sd.distances_gt_to_pred, sd.surfel_areas_gt, tolerance_mm))
        overlap_pred ==
            FSum(Within(sd.distances_pred_to_gt, sd.surfel_areas_pred, tolerance_mm))
    IN  FDiv(FAdd(overlap_gt, overlap_pred),
             FAdd(FSum(sd.surfel_areas_gt), FSum(sd.surfel_areas_pred)))

\* the Soerensen-Dice coefficient of two masks, NaN for two empty masks
compute_dice_coefficient(m_gt, m_pred) ==
    LET volume_sum == Cardinality(m_gt) + Cardinality(m_pred)
        volume_intersect == Cardinality(m_gt \cap m_pred)
    IN  IF volume_sum = 0 THEN NaN
        ELSE FDiv(2 * volume_intersect * Unit, volume_sum * Unit)

----------------------------------------------------------------------------
(* The loop over the cases *)

\* mask.ravel(): the voxels of the volume in C order, 1 for a true one
ravel(mask, shape) ==
    LET voxels == COrder(Box(shape))
    IN  [i \in 1 .. Len(voxels) |-> IF voxels[i] \in mask THEN 1 ELSE 0]

\* the guarded appends with the guard left out
append_Always(list, score) == Append(list, score)

\* if not np.isnan(score): list.append(score)
append_if_not_nan(list, score) ==
    IF ~IsNaN(score) THEN Append(list, score) ELSE list

\* if not np.isinf(score): list.append(score)
append_if_not_inf(list, score) ==
    IF ~IsInf(score) THEN Append(list, score) ELSE list

\* np.mean(np.array(list)): NaN for the empty list
np_mean(list) == FDiv(FSum(list), Len(list) * Unit)

----------------------------------------------------------------------------
(* Inputs *)

\* the shape of the two volumes of a regular evaluation
VolumeShape == <<2, 2, 2>>

\* shapes of volumes handed in without regard to the input contract
Shapes == {<<2, 2, 2>>, <<1, 2, 2>>, <<3, 1, 1>>}

\* the masks of a shape
Masks(shape) == SUBSET Box(shape)

\* the pairs of masks evaluated: any two identical masks, and different
\* masks with at most MaxTrue true voxels together
MaskPair(m_gt, m_pred) ==
    IF m_gt = m_pred THEN TRUE
    ELSE Cardinality(m_gt) + Cardinality(m_pred) <= MaxTrue

\* a box: the voxels of a volume whose index on one axis lies in lo .. hi
\* (the box spans the volume on the two other axes)
BoxMask(shape, axis, lo, hi) ==
    {v \in Box(shape) : lo <= v[axis] /\ v[axis] <= hi}

\* lengths of a box along the axis, and extents of the two other axes
BoxLengths == {1, 2}

CrossSections == {<<1, 1>>, <<2, 1>>, <<2, 2>>}

\* the volume that holds two boxes and the gap between them
BoxVolumeShape(axis, len_a, gap, len_b, cross) ==
    [a \in 1 .. 3 |->
        IF a = axis THEN len_a + gap + len_b
        ELSE IF a < axis THEN cross[a] ELSE cross[a - 1]]

\* voxel spacings in mm; (2, 1, 1) is the program's
Spacings == {<<1, 1, 1>>, <<2, 1, 1>>}

\* spacings with a component that is not positive
BadSpacings == {<<0, 1, 1>>, <<-1, 1, 1>>, <<2, 1, 0>>}

\* the volumes a case of the loop is loaded with
CaseMasks == SUBSET {<<0, 0, 0>>, <<1, 1, 1>>}

\* percents and tolerances the aggregators are called with
Percents == {0, 50, 95, 100}

Tolerances == {0 - Unit, 0, Unit, 2 * Unit, Inf}

\* before the call: no dict, no metric
Unassigned == [unassigned |-> TRUE]

NoMetric == [name |-> "none", arg |-> 0, value |-> 0]

----------------------------------------------------------------------------
(* The state machine: one evaluation of a pair of volumes *)

\* the state of the loop before its first case
InitLoopVars ==
    /\ overlap = FALSE
    /\ processed = 0
    /\ vd_list = <<>>
    /\ sd_list = <<>>
    /\ h100_list = <<>>
    /\ h95_list = <<>>
    /\ gt = <<>>
    /\ pred = <<>>
    /\ h100 = Unassigned
    /\ h95 = Unassigned
    /\ surface_dice = Unassigned
    /\ volumetric_dice = Unassigned

InitCommon ==
    /\ pc = "start"
    /\ surface_distances = Unassigned
    /\ metric = NoMetric
    /\ InitLoopVars

\* volumes of one shape, positive spacing
Init ==
    /\ shape_gt = VolumeShape
    /\ shape_pred = VolumeShape
    /\ mask_gt \in Masks(VolumeShape)
    /\ mask_pred \in Masks(VolumeShape)
    /\ MaskPair(mask_gt, mask_pred)
    /\ spacing_mm \in Spacings
    /\ InitCommon

\* any shapes, any spacing.  With a spacing that is not positive the
\* distance transform is only called where its values are never read
\* (at most one mask is non-empty).
InitAnyInput ==
    /\ shape_gt \in Shapes
    /\ shape_pred \in Shapes
    /\ mask_gt \in Masks(shape_gt)
    /\ mask_pred \in Masks(shape_pred)
    /\ MaskPair(mask_gt, mask_pred)
    /\ spacing_mm \in Spacings \cup BadSpacings
    /\ IF spacing_mm \in BadSpacings THEN {} \in {mask_gt, mask_pred} ELSE TRUE
    /\ InitCommon

\* two boxes of one cross-section, one behind the other along an axis with
\* gap empty layers between them; either may be the ground truth
InitBoxes ==
    /\ \E axis \in 1 .. 3, len_a \in BoxLengths, len_b \in BoxLengths,
          gap \in 0 .. MaxGap, cross \in CrossSections, gt_first \in BOOLEAN :
          LET shape == BoxVolumeShape(axis, len_a, gap, len_b, cross)
              box_a == BoxMask(shape, axis, 0, len_a - 1)
              box_b == BoxMask(shape, axis, len_a + gap, len_a + gap + len_b - 1)
          IN  /\ shape_gt = shape
              /\ shape_pred = shape
              /\ mask_gt = IF gt_first THEN box_a ELSE box_b
              /\ mask_pred = IF gt_first THEN box_b ELSE box_a
    /\ spacing_mm \in Spacings
    /\ InitCommon

\* the call surface_distances = compute_surface_distances(mask_gt, mask_pred, spacing_mm)
ComputeSurfaceDistances ==
    /\ pc = "start"
    /\ IF Raises(mask_gt, shape_gt, mask_pred, shape_pred)
       THEN /\ pc' = "raised"
            /\ UNCHANGED surface_distances
       ELSE /\ pc' = "returned"
            /\ surface_distances' =
                   compute_surface_distances(mask_gt, shape_gt, mask_pred,
                                             shape_pred, spacing_mm)
    /\ UNCHANGED <<mask_gt, shape_gt, mask_pred, shape_pred, spacing_mm, metric>>
    /\ UNCHANGED loop_vars

AverageSurfaceDistance ==
    /\ pc = "returned"
    /\ pc' = "done"
    /\ metric' = [name |-> "average_surface_distance", arg |-> 0,
                  value |-> compute_average_surface_distance(surface_distances)]
    /\ UNCHANGED <<mask_gt, shape_gt, mask_pred, shape_pred, spacing_mm,
                   surface_distances>>
    /\ UNCHANGED loop_vars

RobustHausdorff ==
    /\ pc = "returned"
    /\ pc' = "done"
    /\ \E percent \in Percents :
          metric' = [name |-> "robust_hausdorff", arg |-> percent,
                     value |-> compute_robust_hausdorff(surface_distances, percent)]
    /\ UNCHANGED <<mask_gt, shape_gt, mask_pred, shape_pred, spacing_mm,
                   surface_distances>>
    /\ UNCHANGED loop_vars

SurfaceOverlapAtTolerance ==
    /\ pc = "returned"
    /\ pc' = "done"
    /\ \E tolerance_mm \in Tolerances :
          metric' = [name |-> "surface_overlap", arg |-> tolerance_mm,
                     value |-> compute_surface_overlap_at_tolerance(
                                   surface_distances, tolerance_mm)]
    /\ UNCHANGED <<mask_gt, shape_gt, mask_pred, shape_pred, spacing_mm,
                   surface_distances>>
    /\ UNCHANGED loop_vars

SurfaceDiceAtTolerance ==
    /\ pc = "returned"
    /\ pc' = "done"
    /\ \E tolerance_mm \in Tolerances :
          metric' = [name |-> "surface_dice", arg |-> tolerance_mm,
                     value |-> compute_surface_dice_at_tolerance(
                                   surface_distances, tolerance_mm)]
    /\ UNCHANGED <<mask_gt, shape_gt, mask_pred, shape_pred, spacing_mm,
                   surface_distances>>
    /\ UNCHANGED loop_vars

Next ==
    \/ ComputeSurfaceDistances
    \/ AverageSurfaceDistance
    \/ RobustHausdorff
    \/ SurfaceOverlapAtTolerance
    \/ SurfaceDiceAtTolerance

\* the start of a run over the files: spacing_mm = (2, 1, 1), empty lists
InitLoop ==
    /\ pc = "loop"
    /\ spacing_mm = <<2, 1, 1>>
    /\ overlap \in BOOLEAN
    /\ processed = 0
    /\ vd_list = <<>>
    /\ sd_list = <<>>
    /\ h100_list = <<>>
    /\ h95_list = <<>>
    /\ gt = <<>>
    /\ pred = <<>>
    /\ h100 = Unassigned
    /\ h95 = Unassigned
    /\ surface_dice = Unassigned
    /\ volumetric_dice = Unassigned
    /\ mask_gt = {}
    /\ mask_pred = {}
    /\ shape_gt = VolumeShape
    /\ shape_pred = VolumeShape
    /\ surface_distances = Unassigned
    /\ metric = NoMetric

\* one pass of the loop body over a pair of files; mask_pred is the loaded
\* prediction with its last axis removed.  Volumes of one shape never make
\* compute_surface_distances raise.
ProcessCase ==
    /\ pc = "loop"
    /\ processed < MaxCases
    /\ \E load_gt \in CaseMasks, load_pred \in CaseMasks :
          LET m_pred == IF overlap THEN load_pred \cap load_gt ELSE load_pred
              sd == compute_surface_distances(load_gt, shape_gt, m_pred,
                                              shape_pred, spacing_mm)
          IN  /\ mask_gt' = load_gt
              /\ mask_pred' = m_pred
              /\ surface_distances' = sd
              /\ h100' = compute_robust_hausdorff(sd, 100)
              /\ h95' = compute_robust_hausdorff(sd, 95)
              /\ surface_dice' = compute_surface_dice_at_tolerance(sd, 1 * Unit)
              /\ volumetric_dice' = compute_dice_coefficient(load_gt, m_pred)
              /\ gt' = gt \o ravel(load_gt, shape_gt)
              /\ pred' = pred \o ravel(m_pred, shape_pred)
    /\ vd_list' = append_if_not_nan(vd_list, volumetric_dice')
    /\ sd_list' = append_if_not_nan(sd_list, surface_dice')
    /\ h100_list' = append_if_not_inf(h100_list, h100')
    /\ h95_list' = append_if_not_inf(h95_list, h95')
    /\ processed' = processed + 1
    /\ UNCHANGED <<shape_gt, shape_pred, spacing_mm, pc, metric, overlap>>

\* the four final averages printed after the last case
BatchSummary ==
    /\ pc = "loop"
    /\ pc' = "summarised"
    /\ metric' = [name |-> "final_average", arg |-> 0,
                  value |-> <<np_mean(vd_list), np_mean(sd_list),
                              np_mean(h100_list), np_mean(h95_list)>>]
    /\ UNCHANGED <<mask_gt, shape_gt, mask_pred, shape_pred, spacing_mm,
                   surface_distances>>
    /\ UNCHANGED loop_vars

NextLoop ==
    \/ ProcessCase
    \/ BatchSummary

Spec == Init /\ [][Next]_vars

SpecLoop == InitLoop /\ [][NextLoop]_vars

SpecAnyInput == InitAnyInput /\ [][Next]_vars

\* the call alone, no metric taken of its result
SpecCall == Init /\ [][ComputeSurfaceDistances]_vars

SpecBoxes == InitBoxes /\ [][Next]_vars

----------------------------------------------------------------------------
(* Properties *)

Called == pc \in {"returned", "done"}

OneShape == shape_gt = shape_pred

\* C1: on two all-false masks of one shape compute_surface_distances does not
\* raise and returns four empty arrays; on that result the average surface
\* distance is (NaN, NaN) and the robust Hausdorff distance is +infinity for
\* every percent.
C1_EmptyMasksGiveEmptyResult ==
    (mask_gt = {} /\ mask_pred = {} /\ OneShape) =>
        /\ pc # "raised"
        /\ Called => surface_distances = EmptyResult
        /\ metric.name = "average_surface_distance" => metric.value = <<NaN, NaN>>
        /\ metric.name = "robust_hausdorff" => metric.value = Inf

C1_Witness ==
    /\ mask_gt = {} /\ mask_pred = {} /\ OneShape
    /\ pc = "done"
    /\ surface_distances = EmptyResult
    /\ metric = [name |-> "robust_hausdorff", arg |-> 95, value |-> Inf]

\* C2: when exactly one mask is all-false (volumes of one shape), the call
\* does not raise, the empty mask's distance and area arrays are empty, every
\* distance of the other mask is +infinity, the robust Hausdorff distance is
\* +infinity for every percent, and for every finite tolerance the numerator
\* of the surface Dice is zero and the surface Dice is 0.
C2_OneEmptyMask ==
    ((mask_gt = {}) # (mask_pred = {}) /\ OneShape) =>
        /\ pc # "raised"
        /\ Called =>
            LET sd == surface_distances
                gt_empty == mask_gt = {}
                d_empty == IF gt_empty THEN sd.distances_gt_to_pred
                           ELSE sd.distances_pred_to_gt
                a_empty == IF gt_empty THEN sd.surfel_areas_gt
                           ELSE sd.surfel_areas_pred
                d_other == IF gt_empty THEN sd.distances_pred_to_gt
                           ELSE sd.distances_gt_to_pred
            IN  /\ d_empty = <<>>
                /\ a_empty = <<>>
                /\ \A i \in 1 .. Len(d_other) : d_other[i] = Inf
                /\ \A t \in Tolerances : IsFinite(t) =>
                      FAdd(FSum(Within(sd.distances_gt_to_pred, sd.surfel_areas_gt, t)),
                           FSum(Within(sd.distances_pred_to_gt, sd.surfel_areas_pred, t))) = 0
        /\ metric.name = "robust_hausdorff" => metric.value = Inf
        /\ (metric.name = "surface_dice" /\ IsFinite(metric.arg)) => metric.value = 0

C2_Witness ==
    /\ mask_gt = {} /\ mask_pred # {} /\ OneShape
    /\ pc = "done"
    /\ Len(surface_distances.distances_pred_to_gt) > 0
    /\ metric = [name |-> "surface_dice", arg |-> Unit, value |-> 0]

\* C3: called with two masks of different shapes, compute_surface_distances
\* always fails; it never returns a result.
C3_ShapeMismatchRaises ==
    (shape_gt # shape_pred /\ spacing_mm \in Spacings) => ~Called

\* C4: called with a spacing that has a zero or negative component,
\* compute_surface_distances always fails; it never returns a result.
C4_NonPositiveSpacingRaises ==
    (OneShape /\ \E a \in 1 .. 3 : spacing_mm[a] <= 0) => ~Called

\* C5: with mask_gt = mask_pred non-empty and positive spacing, every
\* distance in both directions is 0, the robust Hausdorff distance is 0 for
\* every percent, and for every tolerance >= 0 the surface overlap is
\* (1.0, 1.0) and the surface Dice is 1.0.
C5_IdenticalMasks ==
    (mask_gt = mask_pred /\ mask_gt # {} /\ OneShape /\ spacing_mm \in Spacings) =>
        /\ Called =>
              /\ \A i \in 1 .. Len(surface_distances.distances_gt_to_pred) :
                    surface_distances.distances_gt_to_pred[i] = 0
              /\ \A i \in 1 .. Len(surface_distances.distances_pred_to_gt) :
                    surface_distances.distances_pred_to_gt[i] = 0
        /\ metric.name = "robust_hausdorff" => metric.value = 0
        /\ (metric.name = "surface_overlap" /\ FLe(0, metric.arg)) =>
              metric.value = <<Unit, Unit>>
        /\ (metric.name = "surface_dice" /\ FLe(0, metric.arg)) =>
              metric.value = Unit

C5_Witness ==
    /\ pc = "done"
    /\ mask_gt = mask_pred /\ Cardinality(mask_gt) = 2
    /\ Len(surface_distances.distances_gt_to_pred) > 8
    /\ metric = [name |-> "surface_overlap", arg |-> 0, value |-> <<Unit, Unit>>]

\* C6: the call with the two masks exchanged returns the same dict with the
\* two directions exchanged; the average surface distance tuple is reversed,
\* and the robust Hausdorff distance (any percent) and the surface Dice (any
\* tolerance) are the same for both orders.
C6_SwapSymmetry ==
    pc = "returned" =>
        LET sd == surface_distances
            sw == compute_surface_distances(mask_pred, shape_pred, mask_gt,
                                            shape_gt, spacing_mm)
            avg == compute_average_surface_distance(sd)
        IN  /\ sw.distances_gt_to_pred = sd.distances_pred_to_gt
            /\ sw.distances_pred_to_gt = sd.distances_gt_to_pred
            /\ sw.surfel_areas_gt = sd.surfel_areas_pred
            /\ sw.surfel_areas_pred = sd.surfel_areas_gt
            /\ compute_average_surface_distance(sw) = <<avg[2], avg[1]>>
            /\ \A percent \in Percents :
                  compute_robust_hausdorff(sw, percent)
                      = compute_robust_hausdorff(sd, percent)
            /\ \A t \in Tolerances :
                  compute_surface_dice_at_tolerance(sw, t)
                      = compute_surface_dice_at_tolerance(sd, t)

C6_Witness ==
    /\ pc = "returned"
    /\ mask_gt # {} /\ mask_pred # {}
    /\ surface_distances.distances_gt_to_pred # surface_distances.distances_pred_to_gt
    /\ LET avg == compute_average_surface_distance(surface_distances)
       IN  IsFinite(avg[1]) /\ IsFinite(avg[2]) /\ avg[1] # avg[2]

\* C7: the robust Hausdorff distance does not decrease as the percent grows,
\* and at 100 percent it is at least every surfel distance of both directions.
C7_HausdorffMonotone ==
    pc = "returned" =>
        LET sd == surface_distances
            hd100 == compute_robust_hausdorff(sd, 100)
        IN  /\ \A p1, p2 \in Percents : p1 <= p2 =>
                  FLe(compute_robust_hausdorff(sd, p1), compute_robust_hausdorff(sd, p2))
            /\ \A i \in 1 .. Len(sd.distances_gt_to_pred) :
                  FLe(sd.distances_gt_to_pred[i], hd100)
            /\ \A i \in 1 .. Len(sd.distances_pred_to_gt) :
                  FLe(sd.distances_pred_to_gt[i], hd100)

C7_Witness ==
    /\ pc = "returned"
    /\ FLt(compute_robust_hausdorff(surface_distances, 0),
           compute_robust_hausdorff(surface_distances, 50))
    /\ FLt(compute_robust_hausdorff(surface_distances, 50),
           compute_robust_hausdorff(surface_distances, 100))
    /\ IsFinite(compute_robust_hausdorff(surface_distances, 100))

\* number of occurrences of x in the sequence s
Count(s, x) == Cardinality({i \in 1 .. Len(s) : s[i] = x})

NonDecreasing(s) == \A i \in 1 .. Len(s) - 1 : FLe(s[i], s[i + 1])

\* the <<distance, area>> pairs of two aligned arrays
Zip(ds, as) == [i \in 1 .. Len(ds) |-> <<ds[i], as[i]>>]

SameBag(s, t) ==
    /\ Len(s) = Len(t)
    /\ \A i \in 1 .. Len(s) : Count(s, s[i]) = Count(t, s[i])

\* C8: in every result both distance arrays are non-decreasing, each area
\* array is as long as its distance array, and the (distance, area) pairs of
\* each direction are, as a multiset, the pairs sampled at that direction's
\* border points before sorting.
C8_SortedPairsKept ==
    pc = "returned" =>
        LET sd == surface_distances
        IN  /\ NonDecreasing(sd.distances_gt_to_pred)
            /\ NonDecreasing(sd.distances_pred_to_gt)
            /\ Len(sd.surfel_areas_gt) = Len(sd.distances_gt_to_pred)
            /\ Len(sd.surfel_areas_pred) = Len(sd.distances_pred_to_gt)
            /\ (mask_gt \cup mask_pred) # {} =>
                  LET unsorted == unsorted_surfels(mask_gt, shape_gt, mask_pred,
                                                   shape_pred, spacing_mm)
                  IN  /\ SameBag(Zip(sd.distances_gt_to_pred, sd.surfel_areas_gt),
                                 unsorted.gt)
                      /\ SameBag(Zip(sd.distances_pred_to_gt, sd.surfel_areas_pred),
                                 unsorted.pred)

C8_Witness ==
    /\ pc = "returned"
    /\ mask_gt # {} /\ mask_pred # {}
    /\ LET unsorted == unsorted_surfels(mask_gt, shape_gt, mask_pred,
                                        shape_pred, spacing_mm)
       IN  /\ ~NonDecreasing(Column(unsorted.gt, 1))
           /\ \E i, j \in 1 .. Len(unsorted.gt) : unsorted.gt[i][2] # unsorted.gt[j][2]

\* sum of the areas at the indices I
RECURSIVE AreaAt(_, _)
AreaAt(areas, I) ==
    IF I = {} THEN 0
    ELSE LET i == CHOOSE i \in I : TRUE
         IN  FAdd(areas[i], AreaAt(areas, I \ {i}))

\* area of the surfels of one direction with distance <= t
AreaWithin(distances, areas, t) ==
    AreaAt(areas, {i \in 1 .. Len(distances) : FLe(distances[i], t)})

\* C9 as stated: for every result, the two all-false masks included, and
\* every tolerance the surface Dice lies in [0, 1].
C9_DiceInUnitInterval ==
    metric.name = "surface_dice" =>
        FLe(0, metric.value) /\ FLe(metric.value, Unit)

\* C9, amended: for every result and every tolerance the surface Dice is
\* (gt area with distance <= t + pred area with distance <= t) divided by
\* (total gt area + total pred area); when at least one mask is non-empty
\* the denominator is positive and the value lies in [0, 1]; for two
\* all-false masks the denominator is 0 and the value is NaN.
C9_DiceRatio ==
    metric.name = "surface_dice" =>
        LET sd == surface_distances
            t == metric.arg
            num == FAdd(AreaWithin(sd.distances_gt_to_pred, sd.surfel_areas_gt, t),
                        AreaWithin(sd.distances_pred_to_gt, sd.surfel_areas_pred, t))
            den == FAdd(AreaAt(sd.surfel_areas_gt, DOMAIN sd.surfel_areas_gt),
                        AreaAt(sd.surfel_areas_pred, DOMAIN sd.surfel_areas_pred))
        IN  /\ metric.value = FDiv(num, den)
            /\ (mask_gt \cup mask_pred) # {} =>
                  /\ den > 0
                  /\ FLe(0, metric.value) /\ FLe(metric.value, Unit)
            /\ (mask_gt \cup mask_pred) = {} =>
                  den = 0 /\ IsNaN(metric.value)

C9_Witness ==
    /\ metric.name = "surface_dice"
    /\ metric.arg = Unit
    /\ mask_gt # {} /\ mask_pred # {}
    /\ 0 < metric.value /\ metric.value < Unit

\* C10 as stated: with spacing (1, 1, 1) and exactly one true voxel in
\* mask_gt, the surfel areas of mask_gt add up to 6 (here: to within 1%).
C10_SingleVoxelAreaIsSix ==
    (Called /\ Cardinality(mask_gt) = 1 /\ spacing_mm = <<1, 1, 1>>) =>
        LET total == FSum(surface_distances.surfel_areas_gt)
        IN  100 * Abs(total - 6 * Unit) <= 6 * Unit

\* C10, amended: with spacing (1, 1, 1) and exactly one true voxel in
\* mask_gt, mask_gt has 8 surfels, each of area sqrt(3)/8 (the length of the
\* normal (1/8, 1/8, 1/8)), so the areas add up to sqrt(3), about 1.732.
C10_SingleVoxelAreaIsSqrt3 ==
    (Called /\ Cardinality(mask_gt) = 1 /\ spacing_mm = <<1, 1, 1>>) =>
        LET areas == surface_distances.surfel_areas_gt
        IN  /\ Len(areas) = 8
            /\ \A i \in 1 .. Len(areas) :
                  /\ 64 * areas[i] * areas[i] <= 3 * Unit * Unit
                  /\ 3 * Unit * Unit < 64 * (areas[i] + 1) * (areas[i] + 1)
            /\ FSum(areas) = 8 * areas[1]

C10_Witness ==
    /\ pc = "returned"
    /\ mask_gt = {<<1, 1, 1>>}
    /\ mask_pred = {}
    /\ spacing_mm = <<1, 1, 1>>
    /\ Len(surface_distances.surfel_areas_gt) = 8

\* the index range of a non-empty mask along an axis, and whether the mask
\* is the axis-aligned box of its three ranges
Lo(m, a) == Min({v[a] : v \in m})

Hi(m, a) == Max({v[a] : v \in m})

IsBox(m) ==
    /\ m # {}
    /\ m = {<<x0, x1, x2>> : x0 \in Lo(m, 1) .. Hi(m, 1),
                             x1 \in Lo(m, 2) .. Hi(m, 2),
                             x2 \in Lo(m, 3) .. Hi(m, 3)}

\* two boxes of identical cross-section, a before b along the axis, with
\* gap empty layers between them
BoxesApart(a, b, axis, gap) ==
    /\ IsBox(a) /\ IsBox(b)
    /\ \A x \in (1 .. 3) \ {axis} : Lo(a, x) = Lo(b, x) /\ Hi(a, x) = Hi(b, x)
    /\ Lo(b, axis) = Hi(a, axis) + 1 + gap

\* the physical length D of the gap, in fixed point
GapLength(axis, gap) == gap * spacing_mm[axis] * Unit

\* largest distance of a result
MaxDistance(sd) ==
    PyMax(sd.distances_gt_to_pred[Len(sd.distances_gt_to_pred)],
          sd.distances_pred_to_gt[Len(sd.distances_pred_to_gt)])

\* C11 as stated: for two boxes of identical cross-section separated along
\* one axis by a gap of length D, the surface Dice is strictly less than 1.0
\* (whatever the tolerance).
C11_DisjointBoxesDiceBelowOne ==
    \A axis \in 1 .. 3, gap \in 0 .. MaxGap + 1 :
        (/\ metric.name = "surface_dice"
         /\ \/ BoxesApart(mask_gt, mask_pred, axis, gap)
            \/ BoxesApart(mask_pred, mask_gt, axis, gap)) =>
            FLt(metric.value, Unit)

\* C11, amended: for two boxes of identical cross-section separated along
\* one axis by a gap of length D, the smallest distance of each direction is
\* D, both average surface distances are at least D, and the surface Dice is
\* strictly less than 1.0 for every tolerance smaller than the largest
\* surfel distance (which exceeds D) and is 1.0 for every other tolerance.
C11_DisjointBoxes ==
    \A axis \in 1 .. 3, gap \in 0 .. MaxGap + 1 :
        (/\ Called
         /\ \/ BoxesApart(mask_gt, mask_pred, axis, gap)
            \/ BoxesApart(mask_pred, mask_gt, axis, gap)) =>
            LET sd == surface_distances
                D == GapLength(axis, gap)
            IN  /\ sd.distances_gt_to_pred[1] = D
                /\ sd.distances_pred_to_gt[1] = D
                /\ FLt(D, MaxDistance(sd))
                /\ metric.name = "average_surface_distance" =>
                      FLe(D, metric.value[1]) /\ FLe(D, metric.value[2])
                /\ metric.name = "surface_dice" =>
                      IF FLt(metric.arg, MaxDistance(sd))
                      THEN FLt(metric.value, Unit)
                      ELSE metric.value = Unit

C11_Witness ==
    /\ pc = "done"
    /\ BoxesApart(mask_gt, mask_pred, 1, 1)
    /\ spacing_mm = <<2, 1, 1>>
    /\ surface_distances.distances_gt_to_pred[1] = 2 * Unit
    /\ metric.name = "surface_dice"
    /\ metric.arg = 2 * Unit
    /\ 0 < metric.value /\ metric.value < Unit

\* fraction of the total area held by the first i surfels of a direction
CumFraction(areas, i) ==
    FDiv(AreaAt(areas, 1 .. i), AreaAt(areas, 1 .. Len(areas)))

\* the distance of a direction at the first index whose cumulative area
\* fraction reaches percent / 100, the last index when none does, +inf for a
\* direction with no surfel
PercentileDistance(distances, areas, percent) ==
    IF Len(distances) = 0 THEN Inf
    ELSE LET reached == {i \in 1 .. Len(distances) :
                            FLe((percent * Unit) \div 100, CumFraction(areas, i))}
         IN  distances[IF reached = {} THEN Len(distances) ELSE Min(reached)]

\* C12: compute_robust_hausdorff(sd, p) is max(d_gt, d_pred), where the d of
\* a direction is the distance at the first index of the sorted arrays whose
\* cumulative area fraction is >= p/100, the index clamped to the last one,
\* and +inf for a direction with zero surfels.
C12_RobustHausdorffDefinition ==
    metric.name = "robust_hausdorff" =>
        LET sd == surface_distances
            d_gt == PercentileDistance(sd.distances_gt_to_pred,
                                       sd.surfel_areas_gt, metric.arg)
            d_pred == PercentileDistance(sd.distances_pred_to_gt,
                                         sd.surfel_areas_pred, metric.arg)
        IN  /\ metric.value \in {d_gt, d_pred}
            /\ FLe(d_gt, metric.value)
            /\ FLe(d_pred, metric.value)

\* a percentile strictly between the smallest and the largest distance
C12_Witness ==
    /\ metric.name = "robust_hausdorff"
    /\ metric.arg = 50
    /\ LET sd == surface_distances
       IN  /\ Len(sd.distances_gt_to_pred) > 0
           /\ Len(sd.distances_pred_to_gt) > 0
           /\ FLt(PyMax(sd.distances_gt_to_pred[1], sd.distances_pred_to_gt[1]),
                  metric.value)
           /\ FLt(metric.value, MaxDistance(sd))

\* 1 for a true voxel, 0 for a false one or one outside the array
Bit(m, v) == IF v \in m THEN 1 ELSE 0

\* the neighbour code of corner point <<i, j, k>> of a mask
CodeAt(m, i, j, k) ==
      128 * Bit(m, <<i - 1, j - 1, k - 1>>) + 64 * Bit(m, <<i - 1, j - 1, k>>)
    + 32 * Bit(m, <<i - 1, j, k - 1>>) + 16 * Bit(m, <<i - 1, j, k>>)
    + 8 * Bit(m, <<i, j - 1, k - 1>>) + 4 * Bit(m, <<i, j - 1, k>>)
    + 2 * Bit(m, <<i, j, k - 1>>) + Bit(m, <<i, j, k>>)

\* the corner points of a volume: one more than the voxels on every axis
Corners(shape) ==
    {<<i, j, k>> : i \in 0 .. shape[1], j \in 0 .. shape[2], k \in 0 .. shape[3]}

\* the border corner points of a mask in the coordinates of the whole volume
FullBorder(m, shape) ==
    {c \in Corners(shape) : CodeAt(m, c[1], c[2], c[3]) \notin {0, 255}}

\* sum over the axes of (spacing[a] * (p[a] - q[a]))^2
SumOfSquares(p, q) ==
      (spacing_mm[1] * (p[1] - q[1])) * (spacing_mm[1] * (p[1] - q[1]))
    + (spacing_mm[2] * (p[2] - q[2])) * (spacing_mm[2] * (p[2] - q[2]))
    + (spacing_mm[3] * (p[3] - q[3])) * (spacing_mm[3] * (p[3] - q[3]))

\* the array holds exactly one entry per point of from, the distance of the
\* point to the nearest point of to (the minimum over q of the square root
\* of the sum of squares), and every entry is finite
OneExactDistancePerPoint(distances, from, to) ==
    LET root == [n \in {SumOfSquares(p, q) : p \in from, q \in to} |-> FSqrt(n)]
        nearest == [p \in from |-> Min({root[SumOfSquares(p, q)] : q \in to})]
    IN  /\ Len(distances) = Cardinality(from)
        /\ \A i \in 1 .. Len(distances) : IsFinite(distances[i])
        /\ \A d \in {nearest[p] : p \in from} :
              Count(distances, d) = Cardinality({p \in from : nearest[p] = d})

\* C13: when both border masks are non-empty, distances_gt_to_pred has
\* exactly one entry per border point p of the ground truth, equal to the
\* minimum over the border points q of the prediction of
\* sqrt(sum over the axes of (spacing[a] * (p[a] - q[a]))^2), every entry
\* finite; and symmetrically for distances_pred_to_gt.
C13_ExactNearestDistances ==
    (pc = "returned" /\ mask_gt # {} /\ mask_pred # {}) =>
        LET border_gt == FullBorder(mask_gt, shape_gt)
            border_pred == FullBorder(mask_pred, shape_pred)
        IN  /\ border_gt # {} /\ border_pred # {}
            /\ OneExactDistancePerPoint(surface_distances.distances_gt_to_pred,
                                        border_gt, border_pred)
            /\ OneExactDistancePerPoint(surface_distances.distances_pred_to_gt,
                                        border_pred, border_gt)

\* two different masks under anisotropic spacing, with a distance that is
\* not a whole number of voxels
C13_Witness ==
    /\ pc = "returned"
    /\ mask_gt # {} /\ mask_pred # {} /\ mask_gt # mask_pred
    /\ spacing_mm = <<2, 1, 1>>
    /\ \E i \in 1 .. Len(surface_distances.distances_gt_to_pred) :
          /\ surface_distances.distances_gt_to_pred[i] % Unit # 0
          /\ surface_distances.distances_gt_to_pred[i] > 2 * Unit

\* the cropped array of a mask holds the bounding box's content at
\* 0 .. extent - 1 and one zero layer at the max side of every axis, its code
\* map is the code map of the whole volume moved by bmin, and no border
\* corner point of the whole volume is lost
CropKeepsCodes(mask, shape, bmin, bmax) ==
    LET cshape == CropShape(bmin, bmax)
        crop == cropmask(mask, shape, bmin, bmax)
        border == borders(crop, cshape)
    IN  /\ \A a \in 1 .. 3 : cshape[a] = (bmax[a] - bmin[a]) + 2
        /\ \A c \in Box(cshape) :
              /\ c \in crop <=>
                    <<c[1] + bmin[1], c[2] + bmin[2], c[3] + bmin[3]>> \in mask
              /\ (\E a \in 1 .. 3 : c[a] = cshape[a] - 1) => c \notin crop
              /\ neighbour_code(crop, c)
                    = CodeAt(mask, c[1] + bmin[1], c[2] + bmin[2], c[3] + bmin[3])
        /\ \A p \in FullBorder(mask, shape) :
              LET c == <<p[1] - bmin[1], p[2] - bmin[2], p[3] - bmin[3]>>
              IN  /\ c \in Box(cshape)
                  /\ c \in border
                  /\ neighbour_code(crop, c) = CodeAt(mask, p[1], p[2], p[3])

\* C14: each cropped array has length (bbox_max - bbox_min + 2) on every
\* axis, the bounding box's content at 0 .. extent - 1 and a single zero
\* layer at the max side only; the code map computed on it equals, at every
\* corner point, the code of the whole uncropped volume (false outside), and
\* every corner point of the whole volume with a code other than 0 and 255
\* is in the cropped map with the same code.
C14_CropKeepsCodes ==
    (pc = "returned" /\ mask_gt \cup mask_pred # {}) =>
        LET all == mask_all(mask_gt, shape_gt, mask_pred, shape_pred)
        IN  /\ CropKeepsCodes(mask_gt, shape_gt, bbox_min(all), bbox_max(all))
            /\ CropKeepsCodes(mask_pred, shape_pred, bbox_min(all), bbox_max(all))

\* a bounding box smaller than the volume at the min side of one axis and
\* at the max side of another, around two different non-empty masks
C14_Witness ==
    /\ pc = "returned"
    /\ mask_gt # {} /\ mask_pred # {} /\ mask_gt # mask_pred
    /\ LET all == mask_all(mask_gt, shape_gt, mask_pred, shape_pred)
       IN  /\ bbox_min(all)[1] = 1
           /\ bbox_max(all)[2] = 0
           /\ bbox_max(all)[3] = 1 /\ bbox_min(all)[3] = 0
    /\ Len(surface_distances.distances_gt_to_pred) = 8

\* the eight voxels around corner point c
Around(c) ==
    {<<c[1] - i, c[2] - j, c[3] - k>> : i \in 0 .. 1, j \in 0 .. 1, k \in 0 .. 1}

\* the code of every corner point of a cropped mask is the weighted sum of
\* its eight voxels, lies in 0 .. 255, is 0 or 255 exactly for eight equal
\* voxels, and the border points, one per returned surfel, are the points
\* with another code
CodesOfCrop(crop, cshape, distances) ==
    LET border == borders(crop, cshape)
    IN  /\ \A c \in Box(cshape) :
              LET code == neighbour_code(crop, c)
              IN  /\ code = CodeAt(crop, c[1], c[2], c[3])
                  /\ code \in 0 .. 255
                  /\ code = 0 <=> Around(c) \cap crop = {}
                  /\ code = 255 <=> Around(c) \subseteq crop
                  /\ c \in border <=> code \notin {0, 255}
        /\ Len(distances)
              = Cardinality({c \in Box(cshape) :
                                CodeAt(crop, c[1], c[2], c[3]) \notin {0, 255}})

\* C15: the code of corner point (i, j, k) is 128 m[i-1,j-1,k-1]
\* + 64 m[i-1,j-1,k] + 32 m[i-1,j,k-1] + 16 m[i-1,j,k] + 8 m[i,j-1,k-1]
\* + 4 m[i,j-1,k] + 2 m[i,j,k-1] + m[i,j,k] with voxels outside the array
\* counted as 0; it lies in 0 .. 255 without wrapping, is 0 exactly when all
\* eight voxels are false and 255 exactly when all eight are true, and the
\* border mask is true exactly where the code is neither 0 nor 255.
C15_NeighbourCode ==
    (pc = "returned" /\ mask_gt \cup mask_pred # {}) =>
        LET all == mask_all(mask_gt, shape_gt, mask_pred, shape_pred)
            cshape == CropShape(bbox_min(all), bbox_max(all))
        IN  /\ CodesOfCrop(cropmask(mask_gt, shape_gt, bbox_min(all), bbox_max(all)),
                           cshape, surface_distances.distances_gt_to_pred)
            /\ CodesOfCrop(cropmask(mask_pred, shape_pred, bbox_min(all), bbox_max(all)),
                           cshape, surface_distances.distances_pred_to_gt)

\* the full 2x2x2 mask: its centre corner point has code 255, the 26 others
\* are border points
C15_Witness ==
    /\ pc = "returned"
    /\ mask_gt = Box(VolumeShape)
    /\ CodeAt(mask_gt, 1, 1, 1) = 255
    /\ CodeAt(mask_gt, 1, 1, 2) = 170
    /\ Len(surface_distances.distances_gt_to_pred) = 26

\* no entry of a float array is NaN / every entry is above zero
NoNaN(xs) == \A i \in 1 .. Len(xs) : ~IsNaN(xs[i])

AllPositive(xs) == \A i \in 1 .. Len(xs) : FLt(0, xs[i])

\* The area table depends on the spacing alone and is built before the early
\* return for two empty volumes: it is examined once per spacing, there.
\* C16: the normals table has exactly 256 entries; under a positive spacing
\* the area of the codes 0 and 255 is 0 and the area of every code 1 .. 254
\* is strictly positive, so every border surfel has a positive area and the
\* total area of a direction with a surfel is positive; with both masks
\* non-empty no component of the average surface distance or of the surface
\* overlap is NaN.
C16_PositiveAreas ==
    Called =>
        LET sd == surface_distances
            table == neighbour_code_to_surface_area(spacing_mm)
        IN  /\ Len(neighbour_code_to_normals) = 256
            /\ (pc = "returned" /\ mask_gt = {} /\ mask_pred = {}) =>
                  /\ DOMAIN table = 0 .. 255
                  /\ \A code \in 0 .. 255 :
                        IF code \in {0, 255} THEN table[code] = 0
                        ELSE FLt(0, table[code])
            /\ AllPositive(sd.surfel_areas_gt) /\ AllPositive(sd.surfel_areas_pred)
            /\ Len(sd.surfel_areas_gt) > 0 => FLt(0, FSum(sd.surfel_areas_gt))
            /\ Len(sd.surfel_areas_pred) > 0 => FLt(0, FSum(sd.surfel_areas_pred))
            /\ (/\ mask_gt # {} /\ mask_pred # {}
                /\ metric.name \in {"average_surface_distance", "surface_overlap"}) =>
                  NoNaN(metric.value)

\* an average surface distance of two different non-empty masks whose
\* surfels have different areas
C16_Witness ==
    /\ metric.name = "average_surface_distance"
    /\ mask_gt # {} /\ mask_pred # {} /\ mask_gt # mask_pred
    /\ spacing_mm = <<2, 1, 1>>
    /\ \E i, j \in 1 .. Len(surface_distances.surfel_areas_gt) :
          surface_distances.surfel_areas_gt[i] # surface_distances.surfel_areas_gt[j]
    /\ IsFinite(metric.value[1]) /\ IsFinite(metric.value[2])
    /\ metric.value[1] > 0

\* the scores of the last case, from the volumes and the result it left
CaseVolumetricDice ==
    IF mask_gt = {} /\ mask_pred = {} THEN NaN
    ELSE (2 * Cardinality(mask_gt \cap mask_pred) * Unit)
            \div (Cardinality(mask_gt) + Cardinality(mask_pred))

CaseSurfaceDice == compute_surface_dice_at_tolerance(surface_distances, Unit)

CaseHausdorff(percent) == compute_robust_hausdorff(surface_distances, percent)

\* a list after a case: unchanged for a score that is filtered out, the old
\* list followed by the score otherwise
Filtered(before, after, score, filtered) ==
    IF filtered THEN after = before ELSE after = Append(before, score)

\* C17: after any number of processed cases vd_list and sd_list hold no NaN,
\* h100_list and h95_list hold no infinite value and no list is longer than
\* the number of processed cases; a case appends its score at the end of a
\* list or, when the score is NaN (infinite for the Hausdorff lists), leaves
\* the list unchanged, and no step removes or changes an entry.
C17_ScoreLists ==
    /\ [](/\ NoNaN(vd_list) /\ NoNaN(sd_list)
          /\ \A i \in 1 .. Len(h100_list) : ~IsInf(h100_list[i])
          /\ \A i \in 1 .. Len(h95_list) : ~IsInf(h95_list[i])
          /\ Len(vd_list) <= processed /\ Len(sd_list) <= processed
          /\ Len(h100_list) <= processed /\ Len(h95_list) <= processed
          /\ processed > 0 =>
                /\ volumetric_dice = CaseVolumetricDice
                /\ surface_dice = CaseSurfaceDice
                /\ h100 = CaseHausdorff(100)
                /\ h95 = CaseHausdorff(95))
    /\ [][IF processed' = processed + 1
          THEN /\ Filtered(vd_list, vd_list', volumetric_dice', IsNaN(volumetric_dice'))
               /\ Filtered(sd_list, sd_list', surface_dice', IsNaN(surface_dice'))
               /\ Filtered(h100_list, h100_list', h100', IsInf(h100'))
               /\ Filtered(h95_list, h95_list', h95', IsInf(h95'))
          ELSE UNCHANGED <<processed, vd_list, sd_list, h100_list, h95_list>>]_vars

\* two cases processed: one with two empty volumes, whose scores are kept
\* in no list, then one with scores in all four lists
C17_Witness ==
    /\ processed = 2
    /\ Len(vd_list) = 1 /\ Len(sd_list) = 1
    /\ Len(h100_list) = 1 /\ Len(h95_list) = 1
    /\ h100_list[1] > 0
    /\ mask_gt # {} /\ mask_pred # {}
    /\ vd_list[1] = volumetric_dice

====
